---- MODULE Spec2Model ----
(***************************************************************************)
(* Grid state engine and playback sequencer of the Harmonic Solver, in its *)
(* two variants: the fixed bass line edition (src/src/App.js, "locked")    *)
(* and the plain 4-bar edition (src/unnamed/part_000, "plain").            *)
(*                                                                         *)
(* A React event handler queues state updates; the component re-renders    *)
(* and the effects whose dependencies changed run (cleanups first, then    *)
(* bodies, in declaration order); state set by an effect causes one more   *)
(* render.  One action of this model is one host event (click or interval  *)
(* callback) together with every render and effect it causes.              *)
(***************************************************************************)
EXTENDS Integers, Sequences, FiniteSets, TLC

VARIABLES
  variant,      \* "locked" (src/src/App.js) or "plain" (src/unnamed/part_000)
  grid,         \* useState grid: bar -> JS Set, as its insertion-ordered sequence
  analysis,     \* useState analysis: bar -> chord label or NULL
  isPlaying,    \* useState isPlaying
  currentBar,   \* useState currentBar, the cursor (-1 = inactive)
  timeLeft,     \* useState timeLeft
  timerActive,  \* useState timerActive
  playback,     \* playback interval: live intervals, playbackRef, playStep's closure
  countdown,    \* countdown interval: live intervals, timerRef
  emitted,      \* tone requests and toast produced by the last event
  ticks,        \* playback interval callbacks since playback was last started
  lastOp,       \* the last event and its arguments
  history,      \* when recording: the cells toggled since the grid was last reset
  notes,        \* an activeIndices array handed to identifyChord
  label         \* what identifyChord returned for it

vars == <<variant, grid, analysis, isPlaying, currentBar, timeLeft,
          timerActive, playback, countdown, emitted, ticks, lastOp,
          history, notes, label>>

----------------------------------------------------------------------------
(* Constants of the program *)

BARS == 4

Bars == 0 .. (BARS - 1)

NOTE_NAMES == <<"C", "C#", "D", "D#", "E", "F", "F#", "G", "G#", "A", "A#", "B">>

START_OCTAVE == 2

OCTAVES == 3

TOTAL_NOTES == 12 * OCTAVES + 1

MAX_VOICES == 4

NULL == "null"

\* NOTE_NAMES.indexOf(note), 0-based
NoteNameIndex(note) == (CHOOSE i \in 1 .. Len(NOTE_NAMES) : NOTE_NAMES[i] = note) - 1

getNoteIndex(note, octave) == (octave - START_OCTAVE) * 12 + NoteNameIndex(note)

LOCKED_BASS ==
  [b \in Bars |-> CASE b = 0 -> getNoteIndex("F", 2)
                    [] b = 1 -> getNoteIndex("C", 3)
                    [] b = 2 -> getNoteIndex("A", 2)
                    [] b = 3 -> getNoteIndex("D", 3)]

Variants == {"locked", "plain"}

\* LOCKED_BASS[bar] === noteIndex; the plain variant has no locked notes
IsLocked(v, b, n) == v = "locked" /\ LOCKED_BASS[b] = n

----------------------------------------------------------------------------
(* Bounds of the model *)

\* session length in countdown ticks (15 * 60 and 20 * 60 in the source)
ACTIVITY_TIME == 2

\* playback interval callbacks followed after one start
MaxTicks == 4

\* length of the arrays handed to identifyChord
MaxChordLen == 4

\* the pitch indices of those arrays: one octave, and C, E, G, C above it
ChordPitches == (0 .. 11) \cup {12, 16, 19, 24}

\* the cells (bar, pitch index) that the user clicks
ToggleCells(v) ==
  IF v = "locked"
    THEN ({0} \X {5, 9, 12, 17, 8}) \cup ({1} \X {12, 16, 19})
    ELSE ({0} \X {5, 9, 17}) \cup ({1} \X {12, 16, 19})

----------------------------------------------------------------------------
(* Sequences as JS Sets and arrays *)

\* the longest toggle history followed since the last clear
MaxHist == 6

\* the cells toggled while a history is followed: five pitches of bar 0,
\* one more than the voice limit, and one cell of bar 1
HistoryCells(v) ==
  IF v = "locked" THEN ({0} \X {5, 9, 12, 17, 8}) \cup ({1} \X {16})
                  ELSE ({0} \X {5, 9, 12, 17, 8}) \cup ({1} \X {12})

Range(s) == {s[i] : i \in 1 .. Len(s)}

Has(s, n) == n \in Range(s)

\* Set.prototype.delete: the remaining members keep their insertion order
Delete(s, n) == SelectSeq(s, LAMBDA x : x # n)

\* Set.prototype.add of a value the set may already hold
Add(s, n) == IF Has(s, n) THEN s ELSE Append(s, n)

----------------------------------------------------------------------------
(* Chord classifier *)

Major(root) == {root, (root + 4) % 12, (root + 7) % 12}

\* variation of Minor: the fifth is written a semitone too high
MinorSharpFifth(root) == {root, (root + 3) % 12, (root + 8) % 12}

Minor(root) == {root, (root + 3) % 12, (root + 7) % 12}

\* variation of SameMembers: only the first every(...), a subset test
SameMembersOneWay(a, b) == \A n \in a : n \in b

\* every(...) && every(...) of the two arrays
SameMembers(a, b) == (\A n \in a : n \in b) /\ (\A n \in b : n \in a)

RECURSIVE ChordFrom(_, _)
ChordFrom(root, uniquePcs) ==
  IF root >= 12 THEN "Complex/Inversion"
  ELSE IF SameMembers(Major(root), uniquePcs) THEN NOTE_NAMES[root + 1] \o " Major"
  ELSE IF SameMembers(Minor(root), uniquePcs) THEN NOTE_NAMES[root + 1] \o " Minor"
  ELSE ChordFrom(root + 1, uniquePcs)

\* variation of identifyChord: the test of the array length is missing
identifyChordAnyLength(activeIndices) ==
  LET uniquePcs == {activeIndices[i] % 12 : i \in 1 .. Len(activeIndices)}
  IN IF Cardinality(uniquePcs) < 3 THEN "Unknown"
     ELSE ChordFrom(0, uniquePcs)

\* variation of identifyChord: the indices are not reduced to pitch classes
identifyChordNoModulo(activeIndices) ==
  IF Len(activeIndices) < 3 THEN NULL
  ELSE LET uniquePcs == {activeIndices[i] : i \in 1 .. Len(activeIndices)}
       IN IF Cardinality(uniquePcs) < 3 THEN "Unknown"
          ELSE ChordFrom(0, uniquePcs)

identifyChord(activeIndices) ==
  IF Len(activeIndices) < 3 THEN NULL
  ELSE LET uniquePcs == {activeIndices[i] % 12 : i \in 1 .. Len(activeIndices)}
       IN IF Cardinality(uniquePcs) < 3 THEN "Unknown"
          ELSE ChordFrom(0, uniquePcs)

----------------------------------------------------------------------------
(* Grid state *)

getInitialGrid(v) ==
  [b \in Bars |-> IF v = "locked" THEN <<LOCKED_BASS[b]>> ELSE <<>>]

NoAnalysis == [b \in Bars |-> NULL]

\* variation of EvictFirstUnlocked: the first member goes, locked or not
EvictFirstAny(set, lockedNote) ==
  IF set = <<>> THEN set ELSE Delete(set, set[1])

\* variation of EvictFirstUnlocked: the loop has no break
EvictAllUnlocked(set, lockedNote) ==
  IF Has(set, lockedNote) THEN <<lockedNote>> ELSE <<>>

\* variation of EvictFirstUnlocked: the last member that is not locked goes
EvictLastUnlocked(set, lockedNote) ==
  LET cand == {i \in 1 .. Len(set) : set[i] # lockedNote}
  IN IF cand = {} THEN set
     ELSE LET last == CHOOSE i \in cand : \A j \in cand : i >= j
          IN Delete(set, set[last])

\* for (let val of newSet) { if (val !== lockedNote) { newSet.delete(val); break; } }
EvictFirstUnlocked(set, lockedNote) ==
  LET cand == {i \in 1 .. Len(set) : set[i] # lockedNote}
  IN IF cand = {} THEN set
     ELSE LET first == CHOOSE i \in cand : \A j \in cand : i <= j
          IN Delete(set, set[first])

\* variation of ToggleSet: the limit is tested after the add, not before it
ToggleSetLateLimit(v, set, b, n) ==
  IF Has(set, n) THEN Delete(set, n)
  ELSE IF v = "locked" /\ Len(set) > MAX_VOICES
         THEN Add(EvictFirstUnlocked(set, LOCKED_BASS[b]), n)
         ELSE Add(set, n)

\* variation of ToggleSet: the limit of the comment, bass + 2 user notes
ToggleSetThreeVoices(v, set, b, n) ==
  IF Has(set, n) THEN Delete(set, n)
  ELSE IF v = "locked" /\ Len(set) >= MAX_VOICES - 1
         THEN Add(EvictFirstUnlocked(set, LOCKED_BASS[b]), n)
         ELSE Add(set, n)

\* variation of ToggleSet: the limit applies in both variants
ToggleSetAlwaysCapped(v, set, b, n) ==
  IF Has(set, n) THEN Delete(set, n)
  ELSE IF Len(set) >= MAX_VOICES
         THEN Add(EvictFirstUnlocked(set, LOCKED_BASS[b]), n)
         ELSE Add(set, n)

\* the body of the setGrid updater of toggleNote, for one bar's Set
ToggleSet(v, set, b, n) ==
  IF Has(set, n) THEN Delete(set, n)
  ELSE IF v = "locked" /\ Len(set) >= MAX_VOICES
         THEN Add(EvictFirstUnlocked(set, LOCKED_BASS[b]), n)
         ELSE Add(set, n)

\* variation of ToggleAnalysis: the label is written to every bar
ToggleAnalysisAllBars(v, an, newSet, b) ==
  IF v = "plain" THEN [c \in Bars |-> identifyChord(newSet)] ELSE an

\* variation of ToggleAnalysis: no variant updates the label
ToggleAnalysisStale(v, an, newSet, b) == an

\* the analysis array after toggleNote; the locked variant's setAnalysis call
\* is commented out
ToggleAnalysis(v, an, newSet, b) ==
  IF v = "plain" THEN [an EXCEPT ![b] = identifyChord(newSet)] ELSE an

----------------------------------------------------------------------------
(* Intervals and effects.  A state s is a record of the component's state, *)
(* its two interval refs and the output of the event so far.               *)

NoGrid == [b \in Bars |-> <<>>]

NoClosure == [step |-> 0, grid |-> NoGrid]

NoOutput == [bars |-> {}, preview |-> {}, toast |-> "none"]

\* clearInterval(ref.current)
ClearInterval(t) ==
  IF t.ref THEN [t EXCEPT !.live = t.live - 1, !.ref = FALSE] ELSE t

\* ref.current = setInterval(...)
SetInterval(t) == [t EXCEPT !.live = t.live + 1, !.ref = TRUE]

\* variation of playStep: setCurrentBar is not called
playStepKeepsCursor(s) ==
  LET c == s.playback.closure
  IN [s EXCEPT !.emitted.bars = s.emitted.bars \cup Range(c.grid[c.step]),
               !.playback.closure.step = (c.step + 1) % BARS]

\* playStep of the closure c: returns the state after the call
playStep(s) ==
  LET c == s.playback.closure
  IN [s EXCEPT !.currentBar = c.step,
               !.emitted.bars = s.emitted.bars \cup Range(c.grid[c.step]),
               !.playback.closure.step = (c.step + 1) % BARS]

\* clearInterval(playbackRef.current); a closure no interval calls is garbage
ClearPlayback(s) ==
  LET t == ClearInterval(s.playback.timer)
  IN [s EXCEPT !.playback.timer = t,
               !.playback.closure = IF t.live = 0 THEN NoClosure ELSE s.playback.closure]

\* variation of PlaybackCleanup: the effect returns no cleanup
PlaybackCleanupNothing(s) == s

\* return () => clearInterval(playbackRef.current)
PlaybackCleanup(s) == ClearPlayback(s)

\* variation of PlaybackEffect: the else branch leaves the cursor alone
PlaybackEffectKeepsCursor(s, r) ==
  IF r.isPlaying
    THEN LET s1 == [s EXCEPT !.playback.closure = [step |-> 0, grid |-> r.grid]]
             s2 == playStep(s1)
         IN [s2 EXCEPT !.playback.timer = SetInterval(s2.playback.timer)]
    ELSE ClearPlayback(s)

\* body of useEffect(..., [isPlaying, grid]); r is the render it closes over
PlaybackEffect(s, r) ==
  IF r.isPlaying
    THEN LET s1 == [s EXCEPT !.playback.closure = [step |-> 0, grid |-> r.grid]]
             s2 == playStep(s1)
         IN [s2 EXCEPT !.playback.timer = SetInterval(s2.playback.timer)]
    ELSE [ClearPlayback(s) EXCEPT !.currentBar = -1]

\* variation of TimerCleanup: the effect returns no cleanup
TimerCleanupNothing(s) == s

\* return () => clearInterval(timerRef.current)
TimerCleanup(s) == [s EXCEPT !.countdown = ClearInterval(s.countdown)]

\* variation of TimerEffect: expiry stops the countdown but not the playback
TimerEffectKeepsPlaying(s, r) ==
  IF r.timerActive /\ r.timeLeft > 0
    THEN [s EXCEPT !.countdown = SetInterval(s.countdown)]
  ELSE IF r.timeLeft = 0
    THEN [s EXCEPT !.timerActive = FALSE,
                   !.countdown = ClearInterval(s.countdown)]
  ELSE s

\* body of useEffect(..., [timerActive, timeLeft])
TimerEffect(s, r) ==
  IF r.timerActive /\ r.timeLeft > 0
    THEN [s EXCEPT !.countdown = SetInterval(s.countdown)]
  ELSE IF r.timeLeft = 0
    THEN [s EXCEPT !.isPlaying = FALSE, !.timerActive = FALSE,
                   !.countdown = ClearInterval(s.countdown)]
  ELSE s

\* the dependency arrays
TimerDeps(s) == <<s.timerActive, s.timeLeft>>

PlaybackDeps(s) == <<s.isPlaying, s.grid>>

\* One commit: old is the previous render, r the new one; gridNew says that
\* setGrid was given a new array.  Cleanups of the changed effects run first,
\* then their bodies, and state set by the bodies is rendered in turn.
\* variation of PlaybackChanged: the dependency array holds timeLeft as well
PlaybackChangedWithTime(old, r, gridNew) ==
  gridNew \/ PlaybackDeps(old) # PlaybackDeps(r) \/ old.timeLeft # r.timeLeft

\* variation of PlaybackChanged: the dependency array is [isPlaying] alone
PlaybackChangedNoGrid(old, r, gridNew) == old.isPlaying # r.isPlaying

\* whether [isPlaying, grid] changed between two renders; an array given to
\* setGrid is a new object even when its contents are the old ones
PlaybackChanged(old, r, gridNew) ==
  gridNew \/ PlaybackDeps(old) # PlaybackDeps(r)

RECURSIVE Commit(_, _, _)
Commit(old, r, gridNew) ==
  LET timerChanged == TimerDeps(old) # TimerDeps(r)
      playChanged  == PlaybackChanged(old, r, gridNew)
      s1 == IF timerChanged THEN TimerCleanup(r) ELSE r
      s2 == IF playChanged THEN PlaybackCleanup(s1) ELSE s1
      s3 == IF timerChanged THEN TimerEffect(s2, r) ELSE s2
      s4 == IF playChanged THEN PlaybackEffect(s3, r) ELSE s3
  IN IF TimerDeps(s4) = TimerDeps(r) /\ PlaybackDeps(s4) = PlaybackDeps(r)
       THEN s4
       ELSE Commit(r, s4, FALSE)

----------------------------------------------------------------------------
(* State machine *)

Cur ==
  [grid |-> grid, analysis |-> analysis, isPlaying |-> isPlaying,
   currentBar |-> currentBar, timeLeft |-> timeLeft, timerActive |-> timerActive,
   playback |-> playback, countdown |-> countdown, emitted |-> NoOutput]

Settle(s, gridNew) == Commit(Cur, s, gridNew)

Becomes(s, op) ==
  /\ grid' = s.grid
  /\ analysis' = s.analysis
  /\ isPlaying' = s.isPlaying
  /\ currentBar' = s.currentBar
  /\ timeLeft' = s.timeLeft
  /\ timerActive' = s.timerActive
  /\ playback' = s.playback
  /\ countdown' = s.countdown
  /\ emitted' = s.emitted
  /\ ticks' = IF ~s.isPlaying \/ op.op = "start" THEN 0
              ELSE IF op.op = "tick" THEN ticks + 1 ELSE ticks
  /\ lastOp' = op
  /\ history' = IF ~history.on THEN history
                ELSE IF op.op = "toggle"
                  THEN [history EXCEPT !.seq = Append(@, <<op.bar, op.note>>)]
                ELSE IF op.op \in {"clear", "newSession"}
                  THEN [history EXCEPT !.seq = <<>>]
                ELSE history
  /\ UNCHANGED <<variant, notes, label>>

\* the record of an event: its name and arguments, what it started from (the
\* grid for the events that write it, whether the sequencer was playing) and
\* whether it repeats the event before it
Op(name, b, n) ==
  [op |-> name, bar |-> b, note |-> n,
   before |-> IF name \in {"toggle", "toggleLocked", "clear", "newSession"}
                THEN grid ELSE NoGrid,
   wasPlaying |-> isPlaying,
   repeat |-> lastOp.op = name /\ lastOp.bar = b /\ lastOp.note = n]

\* the component after its first render and effects
Mounted ==
  /\ variant \in Variants
  /\ grid = getInitialGrid(variant)
  /\ analysis = NoAnalysis
  /\ isPlaying = FALSE
  /\ currentBar = -1
  /\ timeLeft = ACTIVITY_TIME
  /\ timerActive = FALSE
  /\ playback = [timer |-> [live |-> 0, ref |-> FALSE], closure |-> NoClosure]
  /\ countdown = [live |-> 0, ref |-> FALSE]
  /\ emitted = NoOutput
  /\ ticks = 0
  /\ lastOp = [op |-> "init", bar |-> -1, note |-> -1, before |-> NoGrid,
               wasPlaying |-> FALSE, repeat |-> FALSE]

Init ==
  /\ Mounted
  /\ history = [on |-> FALSE, seq |-> <<>>]
  /\ notes = <<>>
  /\ label = NULL

\* the Time Up overlay covers the whole viewport while timeLeft === 0 and
\* keeps the pointer from the grid cells, which are div elements
TimeUpOverlay == timeLeft = 0

\* if (!timerActive && timeLeft > 0) setTimerActive(true)
StartCountdown(s) ==
  IF ~timerActive /\ timeLeft > 0 THEN [s EXCEPT !.timerActive = TRUE] ELSE s

\* variation of ToggleLocked: the early return is missing
ToggleLockedFallsThrough(b, n) ==
  /\ ~TimeUpOverlay
  /\ IsLocked(variant, b, n)
  /\ LET newSet == ToggleSet(variant, grid[b], b, n)
         s == [Cur EXCEPT !.emitted.preview = {n}, !.emitted.toast = "fixed",
                          !.grid[b] = newSet,
                          !.analysis = ToggleAnalysis(variant, analysis, newSet, b)]
     IN Becomes(Settle(StartCountdown(s), TRUE), Op("toggleLocked", b, n))

\* toggleNote on the locked bass note of the bar: early return
ToggleLocked(b, n) ==
  /\ ~TimeUpOverlay
  /\ IsLocked(variant, b, n)
  /\ Becomes([Cur EXCEPT !.emitted.preview = {n}, !.emitted.toast = "fixed"],
             Op("toggleLocked", b, n))

\* toggleNote on any other cell
ToggleNote(b, n) ==
  /\ ~TimeUpOverlay
  /\ ~IsLocked(variant, b, n)
  /\ LET newSet == ToggleSet(variant, grid[b], b, n)
         s == [Cur EXCEPT !.emitted.preview = {n},
                          !.grid[b] = newSet,
                          !.analysis = ToggleAnalysis(variant, analysis, newSet, b)]
     IN Becomes(Settle(StartCountdown(s), TRUE), Op("toggle", b, n))

\* onClick of the Play / Stop button; a button takes keyboard activation, so
\* the handler can run under the overlay
PressPlay ==
  /\ LET s == [Cur EXCEPT !.isPlaying = ~isPlaying]
     IN Becomes(Settle(StartCountdown(s), FALSE),
                Op(IF isPlaying THEN "stop" ELSE "start", -1, -1))

\* variation of clearGrid: setIsPlaying(false) is missing
clearGridKeepsPlaying(s) ==
  [s EXCEPT !.grid = getInitialGrid(variant), !.analysis = NoAnalysis,
            !.currentBar = -1]

\* variation of clearGrid: the countdown is paused as well
clearGridPausesCountdown(s) ==
  [s EXCEPT !.grid = getInitialGrid(variant), !.analysis = NoAnalysis,
            !.isPlaying = FALSE, !.currentBar = -1, !.timerActive = FALSE]

\* variation of clearGrid: the labels are not reset
clearGridKeepsAnalysis(s) ==
  [s EXCEPT !.grid = getInitialGrid(variant),
            !.isPlaying = FALSE, !.currentBar = -1]

\* variation of clearGrid: playback is toggled as by the Play button
clearGridTogglesPlaying(s) ==
  [s EXCEPT !.grid = getInitialGrid(variant), !.analysis = NoAnalysis,
            !.isPlaying = ~s.isPlaying, !.currentBar = -1]

\* the state updates of clearGrid
clearGrid(s) ==
  [s EXCEPT !.grid = getInitialGrid(variant), !.analysis = NoAnalysis,
            !.isPlaying = FALSE, !.currentBar = -1]

\* onClick of the Reset button, a button as well
ClearGrid ==
  /\ Becomes(Settle(clearGrid(Cur), TRUE), Op("clear", -1, -1))

\* onClick of Start New Session, offered by the Time Up overlay
NewSession ==
  /\ TimeUpOverlay
  /\ Becomes(Settle(clearGrid([Cur EXCEPT !.timeLeft = ACTIVITY_TIME]), TRUE),
             Op("newSession", -1, -1))

\* callback of the countdown interval: setTimeLeft(prev => prev - 1)
CountdownTick ==
  /\ countdown.live > 0
  /\ Becomes(Settle([Cur EXCEPT !.timeLeft = timeLeft - 1], FALSE),
             Op("countdown", -1, -1))

\* callback of the playback interval: playStep
PlaybackTick ==
  /\ playback.timer.live > 0
  /\ ticks < MaxTicks
  /\ Becomes(Settle(playStep(Cur), FALSE), Op("tick", -1, -1))

Next ==
  \/ \E c \in ToggleCells(variant) : ToggleLocked(c[1], c[2])
  \/ \E c \in ToggleCells(variant) : ToggleNote(c[1], c[2])
  \/ PressPlay
  \/ ClearGrid
  \/ NewSession
  \/ CountdownTick
  \/ PlaybackTick

Spec == Init /\ [][Next]_vars

\* what a CountdownTick step does to timeLeft; the steps of Next that are
\* CountdownFires steps are the CountdownTick steps
CountdownFires == countdown.live > 0 /\ timeLeft' = timeLeft - 1

\* the countdown interval fires for as long as it is armed
SpecFair == Spec /\ WF_timeLeft(CountdownFires)

----------------------------------------------------------------------------
(* The chord classifier on its own: arrays of distinct pitch indices, grown *)
(* one member at a time in ascending order, each handed to identifyChord.   *)
(* The classifier sorts what it is given (line 66); the other orders of an  *)
(* array are reached from the ascending one by exchanging members.          *)

InitChord ==
  /\ Mounted
  /\ variant = "plain"
  /\ history = [on |-> FALSE, seq |-> <<>>]
  /\ notes = <<>>
  /\ label = identifyChord(<<>>)

\* const chordName = identifyChord(Array.from(newSet)) after newSet.add(n)
Classify(n) ==
  /\ Len(notes) < MaxChordLen
  /\ \A m \in Range(notes) : m < n
  /\ notes' = Add(notes, n)
  /\ label' = identifyChord(notes')
  /\ UNCHANGED <<variant, grid, analysis, isPlaying, currentBar, timeLeft,
                 timerActive, playback, countdown, emitted, ticks, lastOp,
                 history>>

NextChord == \E n \in ChordPitches : Classify(n)

SpecChord == InitChord /\ [][NextChord]_vars

----------------------------------------------------------------------------
(* The grid editor on its own: toggles and clears from the mounted          *)
(* component, with the sequence of toggleNote calls that wrote the grid     *)
(* since the last clear kept in history.seq.                                *)

InitToggles ==
  /\ Mounted
  /\ history = [on |-> TRUE, seq |-> <<>>]
  /\ notes = <<>>
  /\ label = NULL

NextToggles ==
  \/ \E c \in HistoryCells(variant) :
       Len(history.seq) < MaxHist /\ ToggleNote(c[1], c[2])
  \/ \E c \in HistoryCells(variant) : ToggleLocked(c[1], c[2])
  \/ ClearGrid

SpecToggles == InitToggles /\ [][NextToggles]_vars

----------------------------------------------------------------------------
(* Properties *)

\* the notes that left bar lastOp.bar in the last toggle
Removed == Range(lastOp.before[lastOp.bar]) \ Range(grid[lastOp.bar])

\* the last event was toggleNote adding a note to a bar that was full
EvictingToggle ==
  /\ variant = "locked"
  /\ lastOp.op = "toggle"
  /\ Len(lastOp.before[lastOp.bar]) = MAX_VOICES
  /\ ~Has(lastOp.before[lastOp.bar], lastOp.note)

\* C1: in the locked-bass variant every bar's Note Set contains the bar's
\* Locked Note in every reachable state; eviction never removes it.
C1_LockedNotePresent ==
  variant = "locked" => \A b \in Bars : Has(grid[b], LOCKED_BASS[b])

C1_Witness ==
  /\ EvictingToggle
  /\ Removed # {}
  /\ Has(grid[lastOp.bar], LOCKED_BASS[lastOp.bar])

\* C2: in the capped variant every bar's Note Set has at most 4 members, the
\* locked note counted among them, in every reachable state.
C2_VoiceCeiling ==
  variant = "locked" => \A b \in Bars : Cardinality(Range(grid[b])) <= 4

C2_Witness ==
  /\ EvictingToggle
  /\ Cardinality(Range(grid[lastOp.bar])) = 4
  /\ Has(grid[lastOp.bar], lastOp.note)

\* C3: toggleNote on the Locked Note of a bar changes no core state: the Note
\* Sets of all bars, the labels, the playback state, the cursor, the playback
\* interval and the countdown stay as they are, and no bar tone is requested;
\* only the toast and the preview tone are produced.
C3_LockedToggleNoOp ==
  [][lastOp'.op = "toggleLocked" =>
       /\ UNCHANGED <<grid, analysis, isPlaying, currentBar, playback,
                      timeLeft, timerActive, countdown, ticks>>
       /\ emitted' = [bars |-> {}, preview |-> {lastOp'.note}, toast |-> "fixed"]]_vars

C3_Witness ==
  /\ lastOp.op = "toggleLocked"
  /\ isPlaying
  /\ currentBar = 2
  /\ Len(grid[lastOp.bar]) >= 3

\* the step is toggleNote(b, n) called twice in a row: the second call of a
\* pair whose first call added n to bar b
SecondOfDoubleToggle ==
  /\ lastOp.op = "toggle"
  /\ ~Has(lastOp.before[lastOp.bar], lastOp.note)
  /\ lastOp'.op = "toggle"
  /\ lastOp'.bar = lastOp.bar
  /\ lastOp'.note = lastOp.note

\* C4 as claimed: toggling an unset, unlocked cell twice in a row returns the
\* bar's Note Set to its pre-toggle state, also when the bar was full.
C4_DoubleToggleAnyBar ==
  [][SecondOfDoubleToggle =>
       Range(grid'[lastOp.bar]) = Range(lastOp.before[lastOp.bar])]_vars

\* C4 (amended): toggling an unset, unlocked cell twice in a row returns the
\* bar's Note Set to its pre-toggle state unless the bar of the capped variant
\* held 4 notes before the first toggle; in that case the double toggle
\* leaves the pre-toggle set without its first non-locked member.
C4_DoubleToggle ==
  [][SecondOfDoubleToggle =>
       LET b == lastOp.bar
           pre == lastOp.before[b]
       IN IF variant = "locked" /\ Len(pre) >= 4
            THEN \E x \in Range(pre) \ {LOCKED_BASS[b]} :
                   /\ Range(grid'[b]) = Range(pre) \ {x}
                   /\ \A i \in 1 .. Len(pre) :
                        pre[i] = x => \A j \in 1 .. (i - 1) : pre[j] = LOCKED_BASS[b]
            ELSE Range(grid'[b]) = Range(pre)]_vars

\* the state after the second toggle of a pair that started from a bar of
\* three notes in the capped variant
C4_Witness ==
  /\ variant = "locked"
  /\ lastOp.op = "toggle"
  /\ lastOp.repeat
  /\ lastOp.before[lastOp.bar] = Append(grid[lastOp.bar], lastOp.note)
  /\ Len(grid[lastOp.bar]) = 3

C6_ClearResets ==
  lastOp.op \in {"clear", "newSession"} =>
    \A b \in Bars :
      /\ grid[b] = IF variant = "locked" THEN <<LOCKED_BASS[b]>> ELSE <<>>
      /\ analysis[b] = NULL

\* clear of a grid with a labelled bar
C6_Witness ==
  /\ lastOp.op = "clear"
  /\ \E b \in Bars : Len(lastOp.before[b]) >= 3
  /\ variant = "plain"

\* C7 as claimed: the cursor is 0 right after start and equals N mod BARS
\* after N playback ticks for as long as the sequencer stays PLAYING.
C7_CursorCountsTicks ==
  isPlaying => currentBar = ticks % BARS

\* C8 as claimed: toggling a non-locked note while PLAYING leaves the
\* sequencer playing with its cursor, requests no bar tone and does not
\* restart the tick sequence.
C8_ToggleKeepsSequence ==
  [][(lastOp'.op = "toggle" /\ isPlaying) =>
       /\ isPlaying'
       /\ currentBar' = currentBar
       /\ emitted'.bars = {}
       /\ playback'.closure.step = playback.closure.step]_vars

\* C9: after a stop command the sequencer is STOPPED with cursor -1 and its
\* interval cancelled, and while it stays STOPPED no playback tick happens:
\* the cursor does not change and no bar tone is requested.
C9_StopHalts ==
  /\ [](~isPlaying =>
          /\ currentBar = -1
          /\ playback.timer = [live |-> 0, ref |-> FALSE]
          /\ ~ENABLED PlaybackTick)
  /\ [][~isPlaying' => (lastOp'.op # "tick" /\ emitted'.bars = {})]_vars

C9_Witness ==
  /\ lastOp.op = "stop"
  /\ lastOp.wasPlaying
  /\ ~isPlaying
  /\ currentBar = -1

\* the sequencer state an explicit stop produces from the current state
AfterStop == Settle([Cur EXCEPT !.isPlaying = FALSE], FALSE)

\* C10: when the countdown reaches 0 while PLAYING the sequencer becomes
\* STOPPED with cursor -1 and no playback interval, the sequencer state an
\* explicit stop produces, and grid and labels are unchanged.
C10_ExpiryIsStop ==
  [][(lastOp'.op = "countdown" /\ timeLeft' = 0) =>
       /\ ~isPlaying'
       /\ currentBar' = -1
       /\ playback'.timer.live = 0
       /\ <<isPlaying', currentBar', playback'>>
            = <<AfterStop.isPlaying, AfterStop.currentBar, AfterStop.playback>>
       /\ UNCHANGED <<grid, analysis>>]_vars

C10_Witness ==
  /\ lastOp.op = "countdown"
  /\ lastOp.wasPlaying
  /\ timeLeft = 0
  /\ ~isPlaying
  /\ \E b \in Bars : Len(grid[b]) >= 3

\* the event applies setIsPlaying(false): the expiry of the countdown, or
\* clearGrid (also as part of Start New Session)
StopApplied ==
  \/ lastOp'.op \in {"clear", "newSession"}
  \/ lastOp'.op = "countdown" /\ timeLeft' = 0

\* C11: a stop applied to a STOPPED sequencer (setIsPlaying(false) by itself,
\* by the expiry of the countdown or by clearGrid) changes nothing of the
\* sequencer: it stays STOPPED with cursor -1, no playback interval is armed
\* or cancelled twice, no bar tone is requested, and the stop itself leaves
\* grid and labels as they are.
C11_StopIdempotent ==
  /\ [](~isPlaying =>
          /\ AfterStop.isPlaying = isPlaying
          /\ AfterStop.currentBar = currentBar
          /\ AfterStop.playback = playback
          /\ AfterStop.grid = grid
          /\ AfterStop.analysis = analysis)
  /\ [][(~isPlaying /\ StopApplied) =>
          /\ ~isPlaying'
          /\ currentBar = -1 /\ currentBar' = -1
          /\ playback' = playback
          /\ playback'.timer = [live |-> 0, ref |-> FALSE]
          /\ emitted'.bars = {}
          /\ ticks' = ticks
          /\ lastOp'.op = "countdown" => UNCHANGED <<grid, analysis>>]_vars

\* the countdown expired while the sequencer was stopped
C11_Witness ==
  /\ lastOp.op = "countdown"
  /\ timeLeft = 0
  /\ ~lastOp.wasPlaying
  /\ ~isPlaying
  /\ \E b \in Bars : Len(grid[b]) >= 2

----------------------------------------------------------------------------
(* Properties of the classifier, under SpecChord *)

\* the distinct pitch classes of the classified array
PitchClasses == {notes[i] % 12 : i \in 1 .. Len(notes)}

Roots == 0 .. 11

\* C12: with at least 3 distinct pitch classes the label is '<NoteName[r]>
\* Major' exactly when the classes are {r, r+4, r+7} mod 12, '<NoteName[r]>
\* Minor' exactly when they are {r, r+3, r+7} mod 12, and
\* 'Complex/Inversion' exactly when they are neither for any r.
C12_TriadNaming ==
  Cardinality(PitchClasses) >= 3 =>
    /\ \A r \in Roots :
         /\ label = NOTE_NAMES[r + 1] \o " Major"
              <=> PitchClasses = {r, (r + 4) % 12, (r + 7) % 12}
         /\ label = NOTE_NAMES[r + 1] \o " Minor"
              <=> PitchClasses = {r, (r + 3) % 12, (r + 7) % 12}
    /\ label = "Complex/Inversion"
         <=> \A r \in Roots :
               /\ PitchClasses # {r, (r + 4) % 12, (r + 7) % 12}
               /\ PitchClasses # {r, (r + 3) % 12, (r + 7) % 12}

\* a triad and one more class
C12_Witness ==
  /\ Range(notes) = {0, 4, 7, 10}
  /\ label = "Complex/Inversion"

TriadLabels ==
  {NOTE_NAMES[r + 1] \o q : r \in Roots, q \in {" Major", " Minor"}}

\* C13: the label is null exactly when fewer than 3 indices are given,
\* 'Unknown' exactly when at least 3 indices reduce to fewer than 3 pitch
\* classes, and a triad name or 'Complex/Inversion' for every other input.
C13_NullAndUnknown ==
  /\ label = NULL <=> Len(notes) < 3
  /\ label = "Unknown" <=> (Len(notes) >= 3 /\ Cardinality(PitchClasses) < 3)
  /\ (Len(notes) >= 3 /\ Cardinality(PitchClasses) >= 3)
       => label \in TriadLabels \cup {"Complex/Inversion"}

C13_Witness ==
  /\ notes = <<0, 12, 24>>
  /\ label = "Unknown"

\* the array with its members at i and j exchanged
Swap(s, i, j) == [s EXCEPT ![i] = s[j], ![j] = s[i]]

\* the pitch indices of the grid that have the pitch class of n
SameClass(n) ==
  {m \in {(n % 12) + (12 * k) : k \in 0 .. OCTAVES} : m < TOTAL_NOTES}

\* C14: replacing a member of the array by another index of the same pitch
\* class, or exchanging two members, does not change the label.
C14_OctaveAndOrder ==
  /\ \A i \in 1 .. Len(notes) : \A m \in SameClass(notes[i]) :
       identifyChord([notes EXCEPT ![i] = m]) = label
  /\ \A i, j \in 1 .. Len(notes) : identifyChord(Swap(notes, i, j)) = label

\* C major an octave up; fifth first it is C major too
C14_Witness ==
  /\ notes = <<12, 16, 19>>
  /\ label = "C Major"
  /\ identifyChord(<<19, 0, 4>>) = label

\* the candidates of the root loop that equal the pitch classes
Matching ==
  {c \in Roots \X {" Major", " Minor"} :
     PitchClasses = IF c[2] = " Major" THEN Major(c[1]) ELSE Minor(c[1])}

\* C15: of the 24 candidates at most one equals a set of 3 pitch classes,
\* and the label is the name of that candidate: the order of the root loop
\* decides nothing.
C15_OneCandidate ==
  Cardinality(PitchClasses) = 3 =>
    /\ Cardinality(Matching) <= 1
    /\ \A c \in Matching : label = NOTE_NAMES[c[1] + 1] \o c[2]

\* A minor, named by the last but two root of the loop
C15_Witness ==
  /\ Len(notes) = 3
  /\ PitchClasses = {9, 0, 4}
  /\ label = "A Minor"
  /\ Cardinality(Matching) = 1

----------------------------------------------------------------------------
(* C16 *)

\* the last event called playStep: Play was pressed, the playback interval
\* fired, or the grid was written while the sequencer was playing
Played ==
  \/ lastOp.op \in {"start", "tick"}
  \/ lastOp.op = "toggle" /\ isPlaying

\* C16: on start and on every playback tick the tones requested are exactly
\* the members of the Note Set of the cursor's bar as the grid is after the
\* event, and the grid a running interval reads is the current grid, never
\* an earlier one.
C16_PlaysCurrentNotes ==
  /\ Played => /\ currentBar \in Bars
               /\ emitted.bars = Range(grid[currentBar])
  /\ playback.timer.live > 0 => playback.closure.grid = grid

\* a tick played bar 1 holding two or more notes
C16_Witness ==
  /\ lastOp.op = "tick"
  /\ currentBar = 1
  /\ Len(grid[1]) >= 2
  /\ emitted.bars = Range(grid[1])

----------------------------------------------------------------------------
(* C17 *)

\* C17: in the capped variant a toggle that adds a non-locked note p to a bar
\* holding 4 notes leaves a Note Set of exactly 4 members that contains p and
\* the locked note, and is the previous set with exactly one non-locked
\* member removed and p added.
C17_EvictsExactlyOne ==
  EvictingToggle =>
    LET b == lastOp.bar
        before == Range(lastOp.before[b])
        after == Range(grid[b])
    IN /\ Len(grid[b]) = MAX_VOICES
       /\ Cardinality(after) = MAX_VOICES
       /\ lastOp.note \in after
       /\ LOCKED_BASS[b] \in after
       /\ Cardinality(Removed) = 1
       /\ LOCKED_BASS[b] \notin Removed
       /\ after = (before \ Removed) \cup {lastOp.note}

\* G#2 was added to bar 0 holding F2, A2, C3, F3; A2 left
C17_Witness ==
  /\ EvictingToggle
  /\ lastOp.bar = 0
  /\ lastOp.note = 8
  /\ Range(lastOp.before[0]) = {5, 9, 12, 17}
  /\ Removed = {9}
  /\ Range(grid[0]) = {5, 12, 17, 8}

----------------------------------------------------------------------------
(* C18 *)

\* the initial Note Sets as sets of <<pitch, time of adding>>
FifoStart ==
  [b \in Bars |-> IF variant = "locked" THEN {<<LOCKED_BASS[b], 0>>} ELSE {}]

\* The Note Sets a first-in-first-out rule gives after the first k toggles of
\* history.seq: a present note leaves; a new note enters with time k, after
\* the non-locked member of a full bar with the least time has left.
RECURSIVE FifoReplay(_)
FifoReplay(k) ==
  IF k = 0 THEN FifoStart
  ELSE LET prev == FifoReplay(k - 1)
           b == history.seq[k][1]
           p == history.seq[k][2]
           cur == prev[b]
           mine == {e \in cur : e[1] = p}
           unlocked == {e \in cur : e[1] # LOCKED_BASS[b]}
           oldest == {e \in unlocked : \A f \in unlocked : e[2] <= f[2]}
       IN [prev EXCEPT ![b] =
             IF mine # {} THEN cur \ mine
             ELSE IF Cardinality(cur) >= MAX_VOICES
               THEN (cur \ oldest) \cup {<<p, k>>}
               ELSE cur \cup {<<p, k>>}]

\* the time at which member n of a replayed Note Set was added
AddedAt(set, n) == (CHOOSE e \in set : e[1] = n)[2]

\* C18: in the capped variant the Note Sets are those of the first-in-
\* first-out replay of the toggle history (the member evicted from a full
\* bar is the non-locked one added earliest among those present), and a Set
\* iterates in the order its members were added; the grid is a function of
\* the history.
C18_FifoEviction ==
  (history.on /\ variant = "locked") =>
    LET fifo == FifoReplay(Len(history.seq))
    IN \A b \in Bars :
         /\ Range(grid[b]) = {e[1] : e \in fifo[b]}
         /\ \A i, j \in 1 .. Len(grid[b]) :
              i < j => AddedAt(fifo[b], grid[b][i]) < AddedAt(fifo[b], grid[b][j])

\* A2, C3, F3 filled bar 0, A2 was removed and added again, and G#2 evicted
\* C3, by then the earliest added
C18_Witness ==
  /\ variant = "locked"
  /\ history.seq = <<(<<0, 9>>), (<<0, 12>>), (<<0, 17>>), (<<0, 9>>),
                     (<<0, 9>>), (<<0, 8>>)>>
  /\ EvictingToggle
  /\ Removed = {12}
  /\ grid[0] = <<5, 17, 9, 8>>

----------------------------------------------------------------------------
(* C19 *)

\* C19: in the locked-bass variant every bar holds at most 3 notes, the bass
\* note and 2 user notes, in every reachable state.
C19_ThreeNotesAtMost ==
  variant = "locked" => \A b \in Bars : Cardinality(Range(grid[b])) <= 3

----------------------------------------------------------------------------
(* C20 *)

\* how often cell (b, p) was toggled since the last clear
Toggled(b, p) ==
  Cardinality({i \in 1 .. Len(history.seq) : history.seq[i] = <<b, p>>})

\* C20: in the uncapped variant pitch index p is in bar b's Note Set exactly
\* when cell (b, p) was toggled an odd number of times since the last clear,
\* whatever the order of the toggles and however many notes the bar holds.
C20_ToggleParity ==
  (history.on /\ variant = "plain") =>
    \A b \in Bars : \A p \in 0 .. (TOTAL_NOTES - 1) :
      Has(grid[b], p) <=> Toggled(b, p) % 2 = 1

\* bar 0 holds all five of its toggled pitches, one more than the capped
\* variant allows, and a toggle of bar 1 came between them
C20_Witness ==
  /\ variant = "plain"
  /\ history.on
  /\ Range(grid[0]) = {5, 9, 12, 17, 8}
  /\ Len(grid[0]) > MAX_VOICES
  /\ Range(grid[1]) = {12}
  /\ history.seq[3] = <<1, 12>>

----------------------------------------------------------------------------
(* C21 *)

\* C21: a call of toggleNote(bar, p), on a locked cell or not, evicting or
\* not, leaves the Note Set and the chord label of every other bar as they
\* were, in both variants.
C21_ToggleFrame ==
  [][lastOp'.op \in {"toggle", "toggleLocked"} =>
       \A b \in Bars \ {lastOp'.bar} :
         /\ grid'[b] = grid[b]
         /\ analysis'[b] = analysis[b]]_vars

\* bar 1 was toggled while bar 0 held three notes and a label
C21_Witness ==
  /\ variant = "plain"
  /\ lastOp.op = "toggle"
  /\ lastOp.bar = 1
  /\ Len(grid[0]) = 3
  /\ grid[0] = lastOp.before[0]
  /\ analysis[0] = "Unknown"
  /\ analysis[1] = NULL

----------------------------------------------------------------------------
(* C22 *)

\* C22: in every state reached after an event and its effects the cursor is
\* -1 exactly when the sequencer is stopped and is one of 0 .. BARS - 1
\* exactly when it is playing.
C22_CursorMatchesPlaying ==
  /\ currentBar \in {-1} \cup Bars
  /\ currentBar = -1 <=> ~isPlaying
  /\ currentBar \in Bars <=> isPlaying

\* the third tick after a start moved the cursor to the last bar
C22_Witness ==
  /\ isPlaying
  /\ lastOp.op = "tick"
  /\ ticks = BARS - 1
  /\ currentBar = BARS - 1

----------------------------------------------------------------------------
(* C23 *)

\* C23: at most one playback interval is armed in any reachable state, the
\* armed one is the one playbackRef holds, and none is armed while the
\* sequencer is stopped.
C23_OnePlaybackTimer ==
  /\ playback.timer.live \in {0, 1}
  /\ playback.timer.live = 1 => playback.timer.ref
  /\ ~isPlaying => playback.timer.live = 0
  /\ isPlaying => playback.timer.live = 1

\* a toggle while playing cancelled the interval and armed one anew
C23_Witness ==
  /\ lastOp.op = "toggle"
  /\ lastOp.wasPlaying
  /\ isPlaying
  /\ playback.timer.live = 1
  /\ timerActive
  /\ countdown.live = 1

----------------------------------------------------------------------------
(* C24 *)

\* C24: a countdown tick that leaves timeLeft above 0 changes neither the
\* grid, the labels, isPlaying, the cursor nor the playback interval and the
\* step it will play next, and requests no tone.
C24_CountdownTickFrame ==
  [][(lastOp'.op = "countdown" /\ timeLeft' > 0) =>
       /\ timeLeft' = timeLeft - 1
       /\ grid' = grid
       /\ analysis' = analysis
       /\ isPlaying' = isPlaying
       /\ currentBar' = currentBar
       /\ playback' = playback
       /\ ticks' = ticks
       /\ emitted'.bars = {}]_vars

\* the countdown went from 2 to 1 while the sequencer stood at bar 2
C24_Witness ==
  /\ lastOp.op = "countdown"
  /\ timeLeft = 1
  /\ isPlaying
  /\ currentBar = 2
  /\ playback.closure.step = 3
  /\ playback.timer.live = 1

----------------------------------------------------------------------------
(* C25 *)

\* C25: clearGrid called while the sequencer is playing, from the Reset
\* button or from Start New Session, leaves it stopped with cursor -1 and no
\* playback interval armed, and the reset grid is not played: no bar tone is
\* requested.
C25_ClearStops ==
  (lastOp.op \in {"clear", "newSession"} /\ lastOp.wasPlaying) =>
    /\ ~isPlaying
    /\ currentBar = -1
    /\ playback.timer.live = 0
    /\ ~playback.timer.ref
    /\ emitted.bars = {}

\* Reset was pressed while the sequencer played a grid with user notes
C25_Witness ==
  /\ lastOp.op = "clear"
  /\ lastOp.wasPlaying
  /\ lastOp.before # grid
  /\ ~isPlaying
  /\ playback.timer.live = 0
  /\ emitted.bars = {}

----------------------------------------------------------------------------
(* C26 *)

\* C26: timeLeft stays within 0 .. ACTIVITY_TIME; it changes only by a
\* decrement of 1 on a countdown tick taken while the countdown is active
\* and timeLeft is above 0, or by the reset to ACTIVITY_TIME of Start New
\* Session; at most one countdown interval is armed, and one is armed
\* exactly while the countdown is active with time left.
C26_CountdownInRange ==
  /\ [](/\ timeLeft \in 0 .. ACTIVITY_TIME
        /\ countdown.live \in {0, 1}
        /\ countdown.live = 1 <=> (timerActive /\ timeLeft > 0))
  /\ [][timeLeft' # timeLeft =>
          \/ /\ lastOp'.op = "countdown"
             /\ timerActive
             /\ timeLeft > 0
             /\ timeLeft' = timeLeft - 1
          \/ /\ lastOp'.op = "newSession"
             /\ timeLeft' = ACTIVITY_TIME]_vars

\* the last countdown tick of a session in which nothing played
C26_Witness ==
  /\ lastOp.op = "countdown"
  /\ ~lastOp.wasPlaying
  /\ timeLeft = 0
  /\ ~timerActive
  /\ countdown.live = 0

----------------------------------------------------------------------------
(* C27 *)

\* the step is one of the user actions toggleNote, clear, start, stop
UserStep == lastOp'.op \in {"toggle", "toggleLocked", "clear", "start", "stop"}

\* C27: the countdown is activated by a non-locked toggle or a Play press
\* only; once it is active no toggle, clear, start or stop pauses or resets
\* it; and with the countdown interval firing, an active countdown leads to
\* timeLeft = 0 with the countdown deactivated and the sequencer stopped.
C27_CountdownRunsOut ==
  /\ [][(~timerActive /\ timerActive') => lastOp'.op \in {"toggle", "start"}]_vars
  /\ [][(timerActive /\ UserStep) =>
          /\ timerActive'
          /\ timeLeft' = timeLeft
          /\ countdown' = countdown]_vars
  /\ timerActive ~> (timeLeft = 0 /\ ~timerActive /\ ~isPlaying)

\* Reset was pressed with one second left and the countdown went on
C27_Witness ==
  /\ lastOp.op = "clear"
  /\ lastOp.wasPlaying
  /\ timerActive
  /\ timeLeft = 1
  /\ countdown.live = 1

----------------------------------------------------------------------------
(* C28 *)

\* C28 as claimed: in every reachable state with timeLeft = 0 the sequencer
\* is stopped and the cursor is -1.
C28_StoppedAfterExpiry ==
  timeLeft = 0 => (~isPlaying /\ currentBar = -1)

============================================================================
